---- MODULE Spec2Model ----
(***************************************************************************)
(* A model of src/stan_workup.py: summarize and predictive_regression.     *)
(*                                                                         *)
(* Strings are tuples of one-character strings, so that substring search,  *)
(* replacement, integer parsing and number formatting are computed as the  *)
(* code computes them.  Sample values are exact decimals: a sample array   *)
(* holds integers in units of 1/DataScale, quantile levels are integers in *)
(* units of 1/LevelScale.  The code computes in binary floating point; the *)
(* model is the exact-decimal reading of the same formulas.                *)
(***************************************************************************)
EXTENDS Integers, Sequences, FiniteSets, TLC

VARIABLES
    pc,                   \* "idle", or "returned" once a call has run
    call,                 \* the call that ran: the function and its arguments
    result,               \* what that call returned or raised
    vals,                 \* summarize: the local vals
    ptiles,               \* predictive_regression: the local ptiles
    chart,                \* the bokeh figure the call built, if any
    frames,               \* predictive_regression: the frames df and df_ppc
    default_percentiles,  \* the default list object of percentiles
    default_colors,       \* the default list object of colors
    earlier_defaults      \* an earlier call ran on both default lists

vars == <<pc, call, result, vals, ptiles, chart, frames,
          default_percentiles, default_colors, earlier_defaults>>

-----------------------------------------------------------------------------
(* Bounds of the model.                                                    *)

MaxLen == 3
MaxCols == 2
MaxWidths == 2
MaxColors == 3

-----------------------------------------------------------------------------
(* Python values: None and str.                                            *)

None == [none |-> TRUE, s |-> <<>>]
Str(s) == [none |-> FALSE, s |-> s]

\* str(x) / f'{x}' of None or of a str
PyStr(x) == IF x.none THEN <<"N", "o", "n", "e">> ELSE x.s

-----------------------------------------------------------------------------
(* String operations used by the code.                                     *)

StartsAt(s, i, sub) ==
    /\ i + Len(sub) - 1 <= Len(s)
    /\ SubSeq(s, i, i + Len(sub) - 1) = sub

\* `sub in s`
Contains(sub, s) == \E i \in 1..(Len(s) + 1) : StartsAt(s, i, sub)

\* s.replace(old, ''), old non-empty: non-overlapping occurrences are removed
\* scanning from the left
RECURSIVE RemoveFrom(_, _, _)
RemoveFrom(s, i, old) ==
    IF i > Len(s) THEN <<>>
    ELSE IF StartsAt(s, i, old) THEN RemoveFrom(s, i + Len(old), old)
    ELSE <<s[i]>> \o RemoveFrom(s, i + 1, old)

Remove(s, old) == RemoveFrom(s, 1, old)

Digits == <<"0", "1", "2", "3", "4", "5", "6", "7", "8", "9">>

IsDigit(c) == \E d \in 1..Len(Digits) : Digits[d] = c

DigitVal(c) == (CHOOSE d \in 1..Len(Digits) : Digits[d] = c) - 1

RECURSIVE LStrip(_)
LStrip(s) == IF s # <<>> /\ Head(s) = " " THEN LStrip(Tail(s)) ELSE s

RECURSIVE RStrip(_)
RStrip(s) ==
    IF s # <<>> /\ s[Len(s)] = " " THEN RStrip(SubSeq(s, 1, Len(s) - 1)) ELSE s

\* the digits part of an int() literal: digits, single underscores between digits
IsDigitRun(s) ==
    /\ s # <<>>
    /\ IsDigit(s[1])
    /\ IsDigit(s[Len(s)])
    /\ \A i \in 1..Len(s) : IsDigit(s[i]) \/ s[i] = "_"
    /\ \A i \in 1..(Len(s) - 1) : ~(s[i] = "_" /\ s[i + 1] = "_")

Unsigned(s) == IF s # <<>> /\ s[1] \in {"+", "-"} THEN Tail(s) ELSE s

\* whether int(s) succeeds (base 10)
IsIntLiteral(s) == IsDigitRun(Unsigned(RStrip(LStrip(s))))

RECURSIVE DigitRunVal(_, _)
DigitRunVal(s, acc) ==
    IF s = <<>> THEN acc
    ELSE IF Head(s) = "_" THEN DigitRunVal(Tail(s), acc)
    ELSE DigitRunVal(Tail(s), 10 * acc + DigitVal(Head(s)))

\* int(s), for IsIntLiteral(s)
IntOf(s) ==
    LET t == RStrip(LStrip(s))
        v == DigitRunVal(Unsigned(t), 0)
    IN  IF t[1] = "-" THEN 0 - v ELSE v

RECURSIVE NatStr(_)
NatStr(n) ==
    IF n < 10 THEN <<Digits[n + 1]>>
    ELSE NatStr(n \div 10) \o <<Digits[(n % 10) + 1]>>

-----------------------------------------------------------------------------
(* Numbers.                                                                *)

\* np.round(_, 3)
Decimals == 3
\* ptiles / 100
PercentScale == 100

RECURSIVE Pow10(_)
Pow10(k) == IF k = 0 THEN 1 ELSE 10 * Pow10(k - 1)

\* a sample array holds integers in units of 1/DataScale: one decimal digit
\* more than the rounding keeps
DataScale == Pow10(Decimals + 1)
\* quantile levels are integers in units of 1/LevelScale (0.025 is 25)
LevelScale == 10 * PercentScale

RECURSIVE Insert(_, _)
Insert(x, s) ==
    IF s = <<>> THEN <<x>>
    ELSE IF x <= Head(s) THEN <<x>> \o s
    ELSE <<Head(s)>> \o Insert(x, Tail(s))

RECURSIVE Sort(_)
Sort(s) == IF s = <<>> THEN <<>> ELSE Insert(Head(s), Sort(Tail(s)))

Min(a, b) == IF a <= b THEN a ELSE b

\* variant: the order statistic below the virtual index, without interpolation
Quantile_Lower(a, q) ==
    Sort(a)[(((Len(a) - 1) * q) \div LevelScale) + 1] * LevelScale

\* The linearly interpolated quantile of level q / LevelScale of a non-empty
\* array, times LevelScale (numpy's and pandas' default method 'linear'): the
\* virtual index is (n - 1) * q / LevelScale, and the value lies between the
\* order statistics around it.
Quantile(a, q) ==
    LET sorted == Sort(a)
        n == Len(a)
        pos == (n - 1) * q
        j == pos \div LevelScale
        g == pos % LevelScale
        lo == sorted[j + 1]
        hi == sorted[Min(j + 2, n)]
    IN  lo * LevelScale + g * (hi - lo)

\* x / d rounded to the nearest integer, halves to the even one (np.round)
RoundHalfEven(x, d) ==
    LET f == x \div d
        r == x % d
    IN  IF 2 * r < d THEN f
        ELSE IF 2 * r > d THEN f + 1
        ELSE IF f % 2 = 0 THEN f ELSE f + 1

\* np.round(v, 3) of an exact value x / (DataScale * LevelScale), as a record:
\* milli is the rounded value in thousandths, neg its sign bit (a negative
\* value that rounds to zero is -0.0)
Round3(x) ==
    [milli |-> RoundHalfEven(x, (DataScale * LevelScale) \div Pow10(Decimals)),
     neg |-> x < 0]

RECURSIVE StripZeros(_)
StripZeros(s) ==
    IF Len(s) > 1 /\ s[Len(s)] = "0" THEN StripZeros(SubSeq(s, 1, Len(s) - 1))
    ELSE s

RECURSIVE PadLeft(_, _)
PadLeft(s, k) == IF Len(s) >= k THEN s ELSE PadLeft(<<"0">> \o s, k)

\* str() of a float holding a value with at most 3 decimals: the shortest
\* representation, with at least one fractional digit ('3.0', '1.1', '-0.0')
FloatStr(v) ==
    LET m == IF v.milli < 0 THEN 0 - v.milli ELSE v.milli
        unit == Pow10(Decimals)
    IN  (IF v.neg THEN <<"-">> ELSE <<>>)
        \o NatStr(m \div unit)
        \o <<".">>
        \o StripZeros(PadLeft(NatStr(m % unit), Decimals))

-----------------------------------------------------------------------------
(* summarize                                                               *)

\* line 51: the quantile levels, in the order of vals
SummaryLevels == <<500, 25, 975>>

\* variant: the label of a Series wins over an explicit name
ResolveName_LabelFirst(data, name) ==
    IF data.kind = "Series" THEN data.name ELSE name

\* lines 46-47
ResolveName(data, name) ==
    IF data.kind = "Series" /\ name.none THEN data.name ELSE name

\* lines 48-49
WithUnits(name, units) ==
    IF ~units.none
    THEN Str(PyStr(name) \o <<" ", "(">> \o PyStr(units) \o <<")">>)
    ELSE name

\* line 51
SummaryVals(data) ==
    [i \in 1..Len(SummaryLevels) |-> Round3(Quantile(data.values, SummaryLevels[i]))]

\* lines 53-58: the one-row DataFrame
SummaryFrame(name, v) ==
    [value |-> name,
     median |-> v[1],
     cr |-> <<"[">> \o FloatStr(v[2]) \o <<",", " ">> \o FloatStr(v[3]) \o <<"]">>]

\* line 61: data.values exists on a Series, not on an ndarray
HasValuesAttr(data) == data.kind = "Series"

\* lines 61-66: the ECDF figure handed to bokeh.io.show; the points are
\* (-inf, 0) followed by (x_(k), k/n) for the sorted samples
EcdfPlot(data, name) ==
    [kind |-> "ecdf",
     x_label |-> name,
     y_label |-> <<"E", "C", "D", "F">>,
     x |-> Sort(data.values),
     n |-> Len(data.values),
     renderers |-> <<"circle">>]

NoChart == [kind |-> "none"]

\* the whole call: what it returns or raises, vals, and the figure shown
Summarize(data, name, units, plot) ==
    LET nm == WithUnits(ResolveName(data, name), units)
        v == SummaryVals(data)
        df == SummaryFrame(nm, v)
    IN  IF plot /\ ~HasValuesAttr(data)
        THEN [status |-> "raised", error |-> "AttributeError", vals |-> v,
              chart |-> NoChart]
        ELSE [status |-> "returned", value |-> df, vals |-> v,
              chart |-> IF plot THEN EcdfPlot(data, nm) ELSE NoChart]

-----------------------------------------------------------------------------
(* predictive_regression                                                   *)

\* line 74
DefaultPercentiles == <<95, 75, 50, 25>>
\* line 79
DefaultColors == <<>>
\* lines 133-140
Palette == <<"#bfd3bf", "#99b899", "#739d73", "#4d824d", "#266826", "#004D00">>
\* lines 75-76
XLabel == <<"[", "i", "n", "d", "o", "l", "e", "]", " ", "(", "u", "M", ")">>
YLabel == <<"k", " ", "(", "p", "e", "r", " ", "s", "e", "c", ")">>

\* an argument the caller may leave out
Omitted == [given |-> FALSE, v |-> <<>>]
Given(v) == [given |-> TRUE, v |-> v]

\* the binding of a parameter: the argument, or the function's default object
Bind(arg, default) == IF arg.given THEN arg.v ELSE default

Reverse(s) == [i \in 1..Len(s) |-> s[Len(s) + 1 - i]]

\* a percentage given as twice its value (50 - pt/2 is (100 - pt)/2), divided
\* by 100 (line 114), as a level in units of 1/LevelScale
HalfPctLevel(twice) == (twice * LevelScale) \div (2 * PercentScale)

\* line 111: the widths > 0
PositiveWidths(percentiles) == SelectSeq(percentiles, LAMBDA pt : pt > 0)

\* variant: the upper levels in the given order, not reversed
Ptiles_NoReverse(percentiles) ==
    [i \in 1..Len(percentiles) |-> HalfPctLevel(2 * 50 - percentiles[i])]
    \o <<HalfPctLevel(2 * 50)>>
    \o [i \in 1..Len(percentiles) |-> HalfPctLevel(2 * 50 + percentiles[i])]

\* lines 111-114: line 112 rebinds ptiles from percentiles, not from the
\* filtered list of line 111
Ptiles(percentiles) ==
    LET filtered == PositiveWidths(percentiles)
        rev == Reverse(percentiles)
    IN  [i \in 1..Len(percentiles) |-> HalfPctLevel(2 * 50 - percentiles[i])]
        \o <<HalfPctLevel(2 * 50)>>
        \o [i \in 1..Len(rev) |-> HalfPctLevel(2 * 50 + rev[i])]

AsFloat(level) == [milli |-> level, neg |-> level < 0]

\* line 115
PtilesStr(pts) == [i \in 1..Len(pts) |-> FloatStr(AsFloat(pts[i]))]

IndexOf(s, c) == CHOOSE i \in 1..Len(s) : s[i] = c /\ \A j \in 1..(i - 1) : s[j] # c

\* float(s) of a decimal string with at most 3 fractional digits (lines 151,
\* 152), as a level in units of 1/LevelScale
ParseFloat(s) ==
    LET neg == s[1] = "-"
        body == IF neg THEN Tail(s) ELSE s
        dot == IndexOf(body, ".")
        whole == DigitRunVal(SubSeq(body, 1, dot - 1), 0)
        frac == SubSeq(body, dot + 1, Len(body))
        fracv == DigitRunVal(frac, 0) * Pow10(Decimals - Len(frac))
        m == whole * Pow10(Decimals) + fracv
    IN  IF neg THEN 0 - m ELSE m

\* lines 118-119: the positions of the selected columns, in table order
PpcString(ppc_name) == ppc_name \o <<"[">>

SelectedColumns(df, ppc_name) ==
    SelectSeq([i \in 1..Len(df.columns) |-> i],
              LAMBDA i : Contains(PpcString(ppc_name), df.columns[i]))

\* line 120: df[columns] is a new frame; its quantiles, melted: one row per
\* (column, level), column by column
Melted(df, columns, pts) ==
    LET L == Len(pts)
    IN  [r \in 1..(Len(columns) * L) |->
            LET c == columns[((r - 1) \div L) + 1]
                l == pts[((r - 1) % L) + 1]
            IN  [index |-> l, ppc |-> df.columns[c], y |-> Quantile(df.data[c], l)]]

\* line 123: the text int() is given
ConditionText(col, ppc_name) == Remove(Remove(col, PpcString(ppc_name)), <<"]">>)

ConditionParses(col, ppc_name) == IsIntLiteral(ConditionText(col, ppc_name))

\* variant: the 1-based index kept as it is
ConditionValue_NoOffset(col, ppc_name) == IntOf(ConditionText(col, ppc_name))

\* line 123: the lambda
ConditionValue(col, ppc_name) == IntOf(ConditionText(col, ppc_name)) - 1

\* variant: df_ppc shares storage with df, the new column shows up in both
AttachX_WriteThrough(fr, xs) ==
    [fr EXCEPT !.df_ppc.rows =
        [i \in 1..Len(@) |-> [index |-> @[i].index, ppc |-> @[i].ppc,
                              y |-> @[i].y, x |-> xs[i]]],
               !.df_ppc.columns = Append(@, XLabel),
               !.df.columns = Append(@, XLabel),
               !.df.data = Append(@, xs)]

\* line 123: the assignment df_ppc[x_label] = ...: a column added to df_ppc
AttachX(fr, xs) ==
    [fr EXCEPT !.df_ppc.rows =
        [i \in 1..Len(@) |-> [index |-> @[i].index, ppc |-> @[i].ppc,
                              y |-> @[i].y, x |-> xs[i]]],
               !.df_ppc.columns = Append(@, XLabel)]

\* lines 126-127
SetIndex(fr) == [fr EXCEPT !.df_ppc.index_names =
                          <<<<"q", "u", "a", "n", "t", "i", "l", "e">>, <<"p", "p", "c">>>>]

RECURSIVE UniqueFrom(_, _)
UniqueFrom(s, seen) ==
    IF s = <<>> THEN <<>>
    ELSE IF Head(s) \in seen THEN UniqueFrom(Tail(s), seen)
    ELSE <<Head(s)>> \o UniqueFrom(Tail(s), seen \cup {Head(s)})

\* line 130: Series.unique(), in order of first appearance
Concs(rows) == UniqueFrom([i \in 1..Len(rows) |-> rows[i].x], {})

\* variant: a short list is padded with the palette
FillColors_Pad(colors) == colors \o Palette

\* lines 132-140: the local name colors
FillColors(colors) == IF colors = <<>> THEN Palette ELSE colors

\* variant: the empty default list is filled in place
DefaultColorsAfter_Fill(dc, colorsArg) ==
    IF ~colorsArg.given /\ dc = <<>> THEN Palette ELSE dc

\* lines 132-140 rebind the local name: the default list object is left alone
DefaultColorsAfter(dc, colorsArg) == dc

\* lines 112-113 build new lists: the default list object is left alone
DefaultPercentilesAfter(dp, percentilesArg) == dp

\* df_ppc.loc[key]: the rows of that quantile level
Loc(rows, key) == SelectSeq(rows, LAMBDA r : r.index = key)

YOf(rows) == [i \in 1..Len(rows) |-> rows[i].y]

\* lines 148-154: the loop from band i on; p.varea appends a renderer.  The
\* keyword arguments are evaluated in order: the lookups, then colors[i].
RECURSIVE DrawBands(_, _, _, _, _, _)
DrawBands(i, strs, rows, concs, colors, acc) ==
    IF i >= Len(strs) \div 2 THEN [renderers |-> acc, error |-> "none"]
    ELSE LET q1 == ParseFloat(strs[i + 1])
             q2 == ParseFloat(strs[Len(strs) - i])
         IN  IF Loc(rows, q1) = <<>> \/ Loc(rows, q2) = <<>>
             THEN [renderers |-> acc, error |-> "KeyError"]
             ELSE IF i >= Len(colors)
             THEN [renderers |-> acc, error |-> "IndexError"]
             ELSE DrawBands(i + 1, strs, rows, concs, colors,
                     Append(acc, [glyph |-> "varea", x |-> concs,
                                  q1 |-> q1, y1 |-> YOf(Loc(rows, q1)),
                                  q2 |-> q2, y2 |-> YOf(Loc(rows, q2)),
                                  color |-> colors[i + 1]]))

\* variant: the median line takes the first color
DrawMedian_FirstColor(rows, concs, colors, drawn) ==
    LET q == LevelScale \div 2
    IN  IF Loc(rows, q) = <<>>
        THEN [renderers |-> drawn, error |-> "KeyError"]
        ELSE [renderers |-> Append(drawn,
                 [glyph |-> "line", x |-> concs, q |-> q, y |-> YOf(Loc(rows, q)),
                  color |-> colors[1]]),
              error |-> "none"]

\* lines 157-162: colors is never empty here
DrawMedian(rows, concs, colors, drawn) ==
    LET q == LevelScale \div 2
    IN  IF Loc(rows, q) = <<>>
        THEN [renderers |-> drawn, error |-> "KeyError"]
        ELSE [renderers |-> Append(drawn,
                 [glyph |-> "line", x |-> concs, q |-> q, y |-> YOf(Loc(rows, q)),
                  color |-> colors[Len(colors)]]),
              error |-> "none"]

\* lines 143-145
Figure(renderers) ==
    [kind |-> "figure", x_label |-> XLabel, y_label |-> YLabel, renderers |-> renderers]

\* line 120 can raise only for a frame without columns
QuantileOutcomes(df, ppc_name) ==
    IF SelectedColumns(df, ppc_name) = <<>> THEN BOOLEAN ELSE {FALSE}

Raised(err, lv, fr, ch) ==
    [status |-> "raised", error |-> err, ptiles |-> lv, frames |-> fr, chart |-> ch]

\* The whole call.  frames0.df is the caller's table.  quantile_raises is the
\* installed pandas: whether the quantiles of a frame without columns raise
\* (line 120) or give an empty frame, whose lookup fails later.
PredictiveRegression(frames0, ppc_name, percentiles, colors0, quantile_raises) ==
    LET pts == Ptiles(percentiles)
        strs == PtilesStr(pts)
        columns == SelectedColumns(frames0.df, ppc_name)
        fr1 == [frames0 EXCEPT !.df_ppc =
                   [columns |-> <<<<"i", "n", "d", "e", "x">>, <<"p", "p", "c">>, YLabel>>,
                    rows |-> Melted(frames0.df, columns, pts),
                    index_names |-> <<>>]]
        rows1 == fr1.df_ppc.rows
        parses == \A i \in 1..Len(rows1) : ConditionParses(rows1[i].ppc, ppc_name)
        xs == [i \in 1..Len(rows1) |-> ConditionValue(rows1[i].ppc, ppc_name)]
        fr2 == SetIndex(AttachX(fr1, xs))
        rows == fr2.df_ppc.rows
        concs == Concs(rows)
        colors == FillColors(colors0)
        bands == DrawBands(0, strs, rows, concs, colors, <<>>)
        median == DrawMedian(rows, concs, colors, bands.renderers)
    IN  IF columns = <<>> /\ quantile_raises
        THEN Raised("ValueError", pts, frames0, NoChart)
        ELSE IF ~parses THEN Raised("ValueError", pts, fr1, NoChart)
        ELSE IF bands.error # "none"
        THEN Raised(bands.error, pts, fr2, Figure(bands.renderers))
        ELSE IF median.error # "none"
        THEN Raised(median.error, pts, fr2, Figure(median.renderers))
        ELSE [status |-> "returned", value |-> Figure(median.renderers),
              ptiles |-> pts, frames |-> fr2, chart |-> Figure(median.renderers)]

-----------------------------------------------------------------------------
(* The inputs the callers draw from.                                       *)

RECURSIVE SeqsUpTo(_, _)
SeqsUpTo(S, n) ==
    IF n = 0 THEN {<<>>}
    ELSE LET shorter == SeqsUpTo(S, n - 1)
         IN  shorter \cup {Append(s, x) : s \in {t \in shorter : Len(t) = n - 1}, x \in S}

\* sample values, in units of 1/DataScale: -0.0015, 0.0005, 0.0015, 1
Values == {0 - 15, 5, 15, DataScale}

\* the array 1, 2, 3, 4, 5
ExampleArray == [i \in 1..5 |-> i * DataScale]

SampleArrays == (SeqsUpTo(Values, MaxLen) \ {<<>>}) \cup {ExampleArray}

S_k == <<"k">>
S_kcat == <<"k", "c", "a", "t">>
S_persec == <<"p", "e", "r", " ", "s", "e", "c">>
S_ppc == <<"p", "p", "c">>

\* a pandas Series (labelled or not) or a numpy array of the samples
DataInputs ==
    {[kind |-> "Series", name |-> nm, values |-> a] :
        nm \in {None, Str(S_kcat)}, a \in SampleArrays}
    \cup {[kind |-> "ndarray", name |-> None, values |-> a] : a \in SampleArrays}

NameArgs == {None, Str(S_k)}
UnitsArgs == {None, Str(S_persec)}

\* the columns a sample table is made of: a name and its draws
ColumnPool ==
    {[name |-> <<"p", "p", "c", "[", "1", "]">>, draws |-> <<0, 10>>],
     [name |-> <<"p", "p", "c", "[", "2", "]">>, draws |-> <<4, 2>>],
     [name |-> <<"p", "p", "c", "[", "2", "]", "]">>, draws |-> <<1, 3>>],
     [name |-> <<"x", "p", "p", "c", "[", "1", "]">>, draws |-> <<5, 6>>],
     [name |-> <<"m", "u">>, draws |-> <<8, 9>>]}

Distinct(s) == \A i, j \in 1..Len(s) : i # j => s[i] # s[j]

TableOf(cs) ==
    [columns |-> [i \in 1..Len(cs) |-> cs[i].name],
     data |-> [i \in 1..Len(cs) |-> cs[i].draws]]

\* the table with the columns ppc[1], ppc[2], ppc[3]
ExampleTable ==
    TableOf([i \in 1..3 |->
        [name |-> S_ppc \o <<"[", Digits[i + 1], "]">>, draws |-> <<i, 3 * i>>]])

\* sample tables: distinct columns of the pool, in any order
Tables ==
    {TableOf(cs) : cs \in {s \in SeqsUpTo(ColumnPool, MaxCols) : Distinct(s)}}
    \cup {ExampleTable}

Widths == {0, 50, 95}

PercentileArgs == {Omitted} \cup {Given(w) : w \in SeqsUpTo(Widths, MaxWidths)}

UserColors == <<"red", "orange", "gold", "green", "blue", "purple">>

ColorArgs == {Omitted} \cup {Given(SubSeq(UserColors, 1, n)) : n \in 0..MaxColors}

-----------------------------------------------------------------------------
(* The state machine: a Python session calling the two functions.          *)

NoCall == [fn |-> "none"]
NoResult == [status |-> "none"]
NoFrame == [columns |-> <<>>, rows |-> <<>>, index_names |-> <<>>]
NoFrames == [df |-> [columns |-> <<>>, data |-> <<>>], df_ppc |-> NoFrame]

Init ==
    /\ pc = "idle"
    /\ call = NoCall
    /\ result = NoResult
    /\ vals = <<>>
    /\ ptiles = <<>>
    /\ chart = NoChart
    /\ frames = NoFrames
    /\ default_percentiles = DefaultPercentiles
    /\ default_colors = DefaultColors
    /\ earlier_defaults = FALSE

Outcome(r) ==
    IF r.status = "returned" THEN [status |-> "returned", value |-> r.value]
    ELSE [status |-> "raised", error |-> r.error]

CallSummarize ==
    /\ pc = "idle"
    /\ \E data \in DataInputs, name \in NameArgs, units \in UnitsArgs, plot \in BOOLEAN :
       \E r \in {Summarize(data, name, units, plot)} :
            /\ call' = [fn |-> "summarize", data |-> data, name |-> name,
                        units |-> units, plot |-> plot]
            /\ result' = Outcome(r)
            /\ vals' = r.vals
            /\ chart' = r.chart
    /\ pc' = "returned"
    /\ UNCHANGED <<ptiles, frames, default_percentiles, default_colors, earlier_defaults>>

CallPredictiveRegression ==
    /\ pc = "idle"
    /\ \E df \in Tables, percentiles \in PercentileArgs, colors \in ColorArgs :
       \E quantile_raises \in QuantileOutcomes(df, S_ppc) :
       \E r \in {PredictiveRegression([df |-> df, df_ppc |-> NoFrame], S_ppc,
                                      Bind(percentiles, default_percentiles),
                                      Bind(colors, default_colors), quantile_raises)} :
            /\ call' = [fn |-> "predictive_regression", df |-> df, ppc_name |-> S_ppc,
                        percentiles |-> percentiles, colors |-> colors,
                        quantile_raises |-> quantile_raises]
            /\ result' = Outcome(r)
            /\ ptiles' = r.ptiles
            /\ chart' = r.chart
            /\ frames' = r.frames
            /\ default_percentiles' = DefaultPercentilesAfter(default_percentiles, percentiles)
            /\ default_colors' = DefaultColorsAfter(default_colors, colors)
    /\ pc' = "returned"
    /\ UNCHANGED <<vals, earlier_defaults>>

\* the caller takes the outcome and goes on; the call's locals are gone
Resume ==
    /\ pc = "returned"
    /\ pc' = "idle"
    /\ call' = NoCall
    /\ result' = NoResult
    /\ vals' = <<>>
    /\ ptiles' = <<>>
    /\ chart' = NoChart
    /\ frames' = NoFrames
    /\ earlier_defaults' =
          (earlier_defaults
             \/ (call.fn = "predictive_regression"
                   /\ ~call.percentiles.given /\ ~call.colors.given))
    /\ UNCHANGED <<default_percentiles, default_colors>>

Next == CallSummarize \/ CallPredictiveRegression \/ Resume

Spec == Init /\ [][Next]_vars

-----------------------------------------------------------------------------
(* What the properties are stated with.                                    *)

InSummarize == pc = "returned" /\ call.fn = "summarize"
InPredictiveRegression == pc = "returned" /\ call.fn = "predictive_regression"

CountBelow(a, v) == Cardinality({k \in DOMAIN a : a[k] < v})
CountAtMost(a, v) == Cardinality({k \in DOMAIN a : a[k] <= v})

\* the i-th smallest sample
OrderStatistic(a, i) ==
    CHOOSE v \in {a[k] : k \in DOMAIN a} : CountBelow(a, v) < i /\ CountAtMost(a, v) >= i

\* den times the quantile of level num/den of a, interpolated linearly between
\* the order statistics whose positions (j - 1)/(n - 1) enclose the level
LinearQuantile(a, num, den) ==
    LET n == Len(a)
        j == CHOOSE i \in 1..n : (i - 1) * den <= (n - 1) * num /\ (n - 1) * num <= i * den
        below == OrderStatistic(a, j)
        above == OrderStatistic(a, IF j < n THEN j + 1 ELSE n)
    IN  below * den + ((n - 1) * num - (j - 1) * den) * (above - below)

Abs(x) == IF x < 0 THEN 0 - x ELSE x

\* m thousandths is the value v / (den * DataScale) rounded to 3 decimals: the
\* nearest thousandth, the even one of two equally near
IsRounded3(v, den, m) ==
    LET u == (den * DataScale) \div 1000
    IN  /\ 2 * Abs(m * u - v) <= u
        /\ 2 * Abs(m * u - v) = u => m % 2 = 0

\* the widths and the color list the call works with
CallWidths == IF call.percentiles.given THEN call.percentiles.v ELSE <<95, 75, 50, 25>>
CallColors ==
    IF call.colors.given /\ call.colors.v # <<>> THEN call.colors.v ELSE Palette

CallSelected == SelectedColumns(call.df, call.ppc_name)

\* the table has columns to plot and every one of them gives a condition value
UsableTable ==
    /\ CallSelected # <<>>
    /\ \A i \in 1..Len(CallSelected) :
          ConditionParses(call.df.columns[CallSelected[i]], call.ppc_name)

AllDigits(s) == s # <<>> /\ \A i \in 1..Len(s) : IsDigit(s[i])

\* the text between "<base>[" and the closing "]", for a name of that shape
IndexText(col, base) == SubSeq(col, Len(base) + 2, Len(col) - 1)

\* col is "<base>[<integer>]"
IsBaseIndexForm(col, base) ==
    /\ Len(col) >= Len(base) + 3
    /\ SubSeq(col, 1, Len(base) + 1) = base \o <<"[">>
    /\ col[Len(col)] = "]"
    /\ AllDigits(Unsigned(IndexText(col, base)))

RECURSIVE Decimal(_)
Decimal(d) ==
    IF d = <<>> THEN 0 ELSE 10 * Decimal(SubSeq(d, 1, Len(d) - 1)) + DigitVal(d[Len(d)])

\* the integer n of "<base>[<n>]"
FormIndex(col, base) ==
    LET txt == IndexText(col, base)
    IN  IF txt[1] = "-" THEN 0 - Decimal(Tail(txt)) ELSE Decimal(Unsigned(txt))

FirstRowWith(rows, v) == CHOOSE i \in 1..Len(rows) : rows[i].x = v /\ \A j \in 1..(i - 1) : rows[j].x # v

Bands(r) == {i \in 1..Len(r) : r[i].glyph = "varea"}

-----------------------------------------------------------------------------
(* C1: for a non-empty sample array, the median of the record summarize    *)
(* returns is the linearly interpolated 0.5 quantile and the bounds of its *)
(* '95% CR' are the linearly interpolated 0.025 and 0.975 quantiles, each  *)
(* rounded to 3 decimals, with lower <= median <= upper; the array         *)
(* 1,2,3,4,5 gives the median 3.0 and the bounds [1.1, 4.9].               *)
C1_SummaryQuantiles ==
    InSummarize =>
        LET a == call.data.values
        IN  /\ IsRounded3(LinearQuantile(a, 1, 2), 2, vals[1].milli)
            /\ IsRounded3(LinearQuantile(a, 1, 40), 40, vals[2].milli)
            /\ IsRounded3(LinearQuantile(a, 39, 40), 40, vals[3].milli)
            /\ vals[2].milli <= vals[1].milli
            /\ vals[1].milli <= vals[3].milli
            /\ result.status = "returned" =>
                  /\ result.value.median = vals[1]
                  /\ result.value.cr =
                        <<"[">> \o FloatStr(vals[2]) \o <<",", " ">>
                        \o FloatStr(vals[3]) \o <<"]">>
                  /\ a = ExampleArray =>
                        /\ result.value.median.milli = 3000
                        /\ result.value.cr =
                              <<"[", "1", ".", "1", ",", " ", "4", ".", "9", "]">>

\* a record returned for the array 1,2,3,4,5, whose bounds are interpolated
C1_Witness ==
    /\ InSummarize
    /\ result.status = "returned"
    /\ call.data.values = ExampleArray
    /\ vals[2].milli = 1100

(* C2: summarize accepts a pandas Series or a numpy array: for every       *)
(* non-empty numeric input of either kind and either value of plot, the    *)
(* call completes without error and returns the summary record.            *)
C2_AcceptsSeriesAndArray ==
    InSummarize =>
        /\ result.status = "returned"
        /\ result.value.median = vals[1]

(* C3: for k percentile widths the quantile-level sequence has 2k+1        *)
(* entries: entry i is (50 - w_i/2)/100 for i < k, entry k is 0.5, entry   *)
(* 2k-i is (50 + w_i/2)/100, so entry i plus entry 2k-i is 1; the widths   *)
(* 95,75,50,25 give 0.025 0.125 0.25 0.375 0.5 0.625 0.75 0.875 0.975.     *)
C3_QuantileLevels ==
    InPredictiveRegression =>
        LET w == CallWidths
            k == Len(w)
        IN  /\ Len(ptiles) = 2 * k + 1
            /\ 2 * ptiles[k + 1] = LevelScale
            /\ \A i \in 0..(k - 1) :
                  /\ 200 * ptiles[i + 1] = (100 - w[i + 1]) * LevelScale
                  /\ 200 * ptiles[2 * k - i + 1] = (100 + w[i + 1]) * LevelScale
                  /\ ptiles[i + 1] + ptiles[2 * k - i + 1] = LevelScale
            /\ w = <<95, 75, 50, 25>> =>
                  ptiles = <<25, 125, 250, 375, 500, 625, 750, 875, 975>>

\* a call on two different widths
C3_Witness ==
    /\ InPredictiveRegression
    /\ call.percentiles.given
    /\ call.percentiles.v = <<50, 95>>
    /\ ptiles = <<250, 25, 500, 975, 750>>

(* C4: for k widths and a color list with at least k entries (and a table  *)
(* whose selected columns give condition values) the call makes exactly    *)
(* k+1 draw calls on the chart it returns, in this order: k filled bands,  *)
(* band i between the level at position i from the start and the level at  *)
(* position i from the end, colored colors[i], then one median line at     *)
(* level 0.5 colored by the last entry of the color list.                  *)
C4_DrawCalls ==
    (InPredictiveRegression /\ UsableTable /\ Len(CallWidths) <= Len(CallColors)) =>
        LET k == Len(CallWidths)
            r == chart.renderers
        IN  /\ result.status = "returned"
            /\ result.value = chart
            /\ Len(r) = k + 1
            /\ \A i \in 0..(k - 1) :
                  /\ r[i + 1].glyph = "varea"
                  /\ r[i + 1].q1 = ptiles[i + 1]
                  /\ r[i + 1].q2 = ptiles[Len(ptiles) - i]
                  /\ r[i + 1].color = CallColors[i + 1]
            /\ r[k + 1].glyph = "line"
            /\ 2 * r[k + 1].q = LevelScale
            /\ r[k + 1].color = CallColors[Len(CallColors)]
            /\ CallWidths = <<95>> => Len(r) = 2

\* two bands and the median line, drawn with the caller's three colors
C4_Witness ==
    /\ InPredictiveRegression
    /\ result.status = "returned"
    /\ call.colors.given
    /\ Len(call.colors.v) = 3
    /\ Len(CallWidths) = 2
    /\ Len(chart.renderers) = 3
    /\ chart.renderers[3].color = call.colors.v[3]

(* C5, as stated: with a non-empty color list and a width list longer than *)
(* the color list length minus 1 the call fails and returns no chart       *)
(* (taken here for widths that are all > 0).                               *)
C5_Original ==
    (/\ InPredictiveRegression
     /\ call.colors.given
     /\ call.colors.v # <<>>
     /\ \A i \in 1..Len(CallWidths) : CallWidths[i] > 0
     /\ Len(CallWidths) > Len(call.colors.v) - 1) =>
        result.status = "raised"

(* C5, amended: with a non-empty color list, a width list longer than the  *)
(* color list makes the call fail and return no chart; when the table's    *)
(* selected columns give condition values the failure is the out-of-range  *)
(* failure, raised after one band per color has been drawn.  A width list  *)
(* exactly as long as the color list does not fail: the chart is returned  *)
(* and the last color serves both the innermost band and the median line.  *)
C5_ColorsTooShort ==
    (InPredictiveRegression /\ call.colors.given /\ call.colors.v # <<>>) =>
        LET k == Len(CallWidths)
            c == Len(call.colors.v)
            r == chart.renderers
        IN  /\ k > c =>
                  /\ result.status = "raised"
                  /\ UsableTable =>
                        /\ result.error = "IndexError"
                        /\ Len(r) = c
                        /\ \A i \in 1..c :
                              r[i].glyph = "varea" /\ r[i].color = call.colors.v[i]
            /\ (k = c /\ UsableTable) =>
                  /\ result.status = "returned"
                  /\ Len(r) = k + 1
                  /\ r[k].color = call.colors.v[c]
                  /\ r[k + 1].color = call.colors.v[c]

\* the out-of-range failure after the caller's two colors are used up
C5_Witness ==
    /\ InPredictiveRegression
    /\ call.colors.given
    /\ Len(call.colors.v) = 2
    /\ Len(CallWidths) = 4
    /\ result.status = "raised"
    /\ result.error = "IndexError"
    /\ Len(chart.renderers) = 2

(* C6, as stated (its last sentence): a selected column whose name is not  *)
(* of the form "<base_name>[<integer>]" makes the call fail.               *)
C6_Original ==
    (/\ InPredictiveRegression
     /\ \E i \in 1..Len(CallSelected) :
           ~IsBaseIndexForm(call.df.columns[CallSelected[i]], call.ppc_name)) =>
        result.status = "raised"

(* C6, amended: the call selects exactly the columns whose name contains   *)
(* "<base_name>["; for a selected column named "<base_name>[<n>]" it       *)
(* recovers the x value n - 1; the x-axis domain lists the recovered       *)
(* values once each, in table column order (ppc[1], ppc[2], ppc[3] give    *)
(* 0, 1, 2).  The call fails when, for some selected column, the text left *)
(* after deleting every "<base_name>[" and every "]" from its name is not  *)
(* an integer literal; a name of another form that leaves an integer       *)
(* literal does not make the call fail.                                    *)
C6_ConditionValues ==
    InPredictiveRegression =>
        LET base == call.ppc_name
            cols == call.df.columns
            rows == frames.df_ppc.rows
            unparsed == {i \in 1..Len(cols) :
                            /\ Contains(base \o <<"[">>, cols[i])
                            /\ ~IsIntLiteral(ConditionText(cols[i], base))}
        IN  /\ {rows[i].ppc : i \in 1..Len(rows)}
                  = {cols[i] : i \in {j \in 1..Len(cols) : Contains(base \o <<"[">>, cols[j])}}
            /\ \A i, j \in 1..Len(rows) :
                  i < j => IndexOf(cols, rows[i].ppc) <= IndexOf(cols, rows[j].ppc)
            /\ unparsed # {} => result.status = "raised" /\ result.error = "ValueError"
            /\ (unparsed = {} /\ rows # <<>>) =>
                  /\ \A i \in 1..Len(rows) :
                        IsBaseIndexForm(rows[i].ppc, base) =>
                            rows[i].x = FormIndex(rows[i].ppc, base) - 1
                  /\ \A n \in 1..Len(chart.renderers) :
                        LET concs == chart.renderers[n].x
                        IN  /\ {concs[i] : i \in 1..Len(concs)}
                                  = {rows[i].x : i \in 1..Len(rows)}
                            /\ \A i, j \in 1..Len(concs) :
                                  i < j => FirstRowWith(rows, concs[i])
                                              < FirstRowWith(rows, concs[j])
            /\ (result.status = "returned" /\ call.df = ExampleTable) =>
                  chart.renderers[1].x = <<0, 1, 2>>

\* the chart over ppc[1], ppc[2], ppc[3]
C6_Witness ==
    /\ InPredictiveRegression
    /\ result.status = "returned"
    /\ call.df = ExampleTable
    /\ chart.renderers[1].x = <<0, 1, 2>>

(* C7: the 'value' field of the record is the display name: the explicit   *)
(* name if one is given, otherwise the input's own label if it has one;    *)
(* with units given it is "<name> (<units>)" for that resolved name        *)
(* (name "k", units "per sec" gives "k (per sec)").                        *)
C7_DisplayName ==
    (InSummarize /\ result.status = "returned") =>
        LET labelled == call.data.kind = "Series" /\ ~call.data.name.none
            shown == result.value.value
        IN  /\ (~call.name.none /\ call.units.none) => shown = call.name
            /\ (call.name.none /\ labelled /\ call.units.none) => shown = call.data.name
            /\ (~call.name.none /\ ~call.units.none) =>
                  shown = Str(call.name.s \o <<" ", "(">> \o call.units.s \o <<")">>)
            /\ (call.name.none /\ labelled /\ ~call.units.none) =>
                  shown = Str(call.data.name.s \o <<" ", "(">> \o call.units.s \o <<")">>)
            /\ (call.name = Str(<<"k">>) /\ call.units = Str(S_persec)) =>
                  shown.s = <<"k", " ", "(", "p", "e", "r", " ", "s", "e", "c", ")">>

\* a labelled Series summarized under an explicit name, with units
C7_Witness ==
    /\ InSummarize
    /\ result.status = "returned"
    /\ call.data.kind = "Series"
    /\ call.data.name = Str(S_kcat)
    /\ call.name = Str(S_k)
    /\ result.value.value = Str(<<"k", " ", "(", "p", "e", "r", " ", "s", "e", "c", ")">>)

(* C8: a call to predictive_regression leaves the input table unchanged:   *)
(* after the call, whether it returns a chart or fails, the table has the  *)
(* same columns and the same values as before the call.                    *)
C8_TableUnchanged ==
    InPredictiveRegression =>
        /\ frames.df.columns = call.df.columns
        /\ frames.df.data = call.df.data

\* a call that got as far as adding the x column to its own frame
C8_Witness ==
    /\ InPredictiveRegression
    /\ result.status = "returned"
    /\ Len(frames.df_ppc.columns) = 4
    /\ frames.df_ppc.rows # <<>>
    /\ call.df.columns # <<>>

(* C9: no state carries between calls: the default percentile list and the *)
(* default color list are never modified, and after any sequence of        *)
(* earlier calls a call to predictive_regression gives what the same call  *)
(* gives when made first, on the lists the function was defined with.      *)
C9_NoCarriedState ==
    /\ default_percentiles = <<95, 75, 50, 25>>
    /\ default_colors = <<>>
    /\ InPredictiveRegression =>
          \A first \in {PredictiveRegression(
                           [df |-> call.df, df_ppc |-> NoFrame], call.ppc_name,
                           CallWidths,
                           IF call.colors.given THEN call.colors.v ELSE <<>>,
                           call.quantile_raises)} :
              /\ result = Outcome(first)
              /\ chart = first.chart

\* a call on both default lists, after an earlier call on both default lists
C9_Witness ==
    /\ InPredictiveRegression
    /\ earlier_defaults
    /\ ~call.percentiles.given
    /\ ~call.colors.given
    /\ result.status = "returned"
    /\ Len(chart.renderers) = 5

(* C10: the widths are filtered to those > 0 before the levels are built:  *)
(* a width <= 0 contributes no level and no band, so the level 0.5 occurs  *)
(* exactly once and the number of bands drawn is the number of widths > 0  *)
(* (taken here for a table with columns to plot).                          *)
C10_FiltersNonPositiveWidths ==
    (InPredictiveRegression /\ UsableTable) =>
        LET positive == Cardinality({i \in 1..Len(CallWidths) : CallWidths[i] > 0})
        IN  /\ Len(ptiles) = 2 * positive + 1
            /\ Cardinality({i \in 1..Len(ptiles) : 2 * ptiles[i] = LevelScale}) = 1
            /\ result.status = "returned" =>
                  Cardinality(Bands(chart.renderers)) = positive

====
